---- MODULE Spec2Model ----
(***************************************************************************)
(* Model of the four analysis scripts of the repository:                  *)
(*   compensation_analysis.py, delivery_time.py,                          *)
(*   new_cost_per_parcel_analysis.py and sc_review.py.                    *)
(* One behaviour is one run of one script's main() over one input (the    *)
(* two CSV files, concatenated).  Each action is one step of a main().    *)
(*                                                                         *)
(* Floating-point values are modelled as exact rationals [n, d]; d = 0 is *)
(* the float NaN (the result of a mean over no data and of 0/0).  Charts, *)
(* console printing, directory creation and the Pearson coefficient are   *)
(* not modelled.                                                           *)
(***************************************************************************)
EXTENDS Integers, Sequences, FiniteSets, TLC

VARIABLES script, input, pc, df, raised, logged, ran, out

vars == <<script, input, pc, df, raised, logged, ran, out>>

(***************************************************************************)
(* Bounds                                                                  *)
(***************************************************************************)
MaxRows == 3

(***************************************************************************)
(* Values                                                                  *)
(***************************************************************************)
\* An empty CSV cell of a text column (pandas NaN).
NaNStr == "NaN"

\* Optional numbers: an empty CSV cell of a numeric column is None.
Some(v) == [has |-> TRUE, v |-> v]
None == [has |-> FALSE, v |-> 0]

\* Floats as exact rationals in lowest terms; d = 0 is NaN.
RECURSIVE GCD(_, _)
GCD(a, b) == IF b = 0 THEN a ELSE GCD(b, a % b)
Abs(i) == IF i < 0 THEN 0 - i ELSE i
Rat(n, d) == IF d = 0 THEN [n |-> 0, d |-> 0]
             ELSE LET g == GCD(Abs(n), Abs(d))
                      sgn == IF d < 0 THEN 0 - 1 ELSE 1
                  IN [n |-> sgn * (n \div g), d |-> sgn * (d \div g)]
NaNRat == Rat(0, 0)
IsNaN(x) == x.d = 0
RatOfInt(i) == Rat(i, 1)
RatEq(a, b) == /\ ~IsNaN(a)
               /\ ~IsNaN(b)
               /\ a.n * b.d = b.n * a.d
RatAdd(a, b) == IF IsNaN(a) \/ IsNaN(b) THEN NaNRat
                ELSE Rat(a.n * b.d + b.n * a.d, a.d * b.d)
RatSub(a, b) == IF IsNaN(a) \/ IsNaN(b) THEN NaNRat
                ELSE Rat(a.n * b.d - b.n * a.d, a.d * b.d)
RatMul(a, b) == IF IsNaN(a) \/ IsNaN(b) THEN NaNRat
                ELSE Rat(a.n * b.n, a.d * b.d)
\* Float division as pandas/numpy does it: no exception, 0/0 is NaN.  x/0
\* with x # 0 (inf) needs a zero total over a non-zero part, which amounts
\* that are never negative cannot give; it is folded into NaN.
RatDiv(a, b) == IF IsNaN(a) \/ IsNaN(b) THEN NaNRat
                ELSE Rat(a.n * b.d, a.d * b.n)

\* Calendar dates.  NaT is an absent date; BadDate is a cell whose text is
\* not a date.
Date(y, m, d) == [y |-> y, m |-> m, d |-> d]
NaT == Date(0, 0, 0)
BadDate == Date(0 - 1, 0, 0)
IsLeap(y) == (y % 4 = 0 /\ y % 100 # 0) \/ y % 400 = 0
DaysInMonth(y, m) == IF m = 2 THEN (IF IsLeap(y) THEN 29 ELSE 28)
                     ELSE IF m \in {4, 6, 9, 11} THEN 30 ELSE 31
RECURSIVE DaysBeforeMonth(_, _)
DaysBeforeMonth(y, m) == IF m <= 1 THEN 0
                         ELSE DaysBeforeMonth(y, m - 1) + DaysInMonth(y, m - 1)
\* Proleptic Gregorian ordinal of a date (what Timestamp subtraction counts).
Ordinal(dt) == LET p == dt.y - 1
               IN 365 * p + (p \div 4) - (p \div 100) + (p \div 400)
                  + DaysBeforeMonth(dt.y, dt.m) + dt.d

\* strftime('%m-%d'): the month and day, the year dropped; NaT gives NaN.
MD(m, d) == [m |-> m, d |-> d]
NoMD == MD(0, 0)
strftime_mmdd(dt) == IF dt = NaT THEN NoMD ELSE MD(dt.m, dt.d)

\* Exceptions.
NoExc == ""

(***************************************************************************)
(* Sequences                                                               *)
(***************************************************************************)
Range(s) == {s[i] : i \in DOMAIN s}

RECURSIVE SumSeq(_)
SumSeq(s) == IF s = <<>> THEN 0 ELSE Head(s) + SumSeq(Tail(s))

MapCol(rows, c) == [i \in DOMAIN rows |-> rows[i][c]]

\* Series.mean() of an integer column: NaN when there is no data.
MeanInt(s) == IF Len(s) = 0 THEN NaNRat ELSE Rat(SumSeq(s), Len(s))

\* The present values of an optional column (Series.dropna()).
RECURSIVE DropNa(_)
DropNa(s) == IF s = <<>> THEN <<>>
             ELSE IF Head(s).has THEN <<Head(s).v>> \o DropNa(Tail(s))
             ELSE DropNa(Tail(s))

\* Series.mean() of an optional column: NaN cells are skipped.
MeanOpt(s) == MeanInt(DropNa(s))

\* Mean of a boolean mask, as a fraction.
MeanBool(s) == IF Len(s) = 0 THEN NaNRat
               ELSE Rat(Cardinality({i \in DOMAIN s : s[i]}), Len(s))

\* Series.unique(): distinct values in order of first appearance; all NaN
\* cells are one value.
RECURSIVE Unique(_)
Unique(s) == IF s = <<>> THEN <<>>
             ELSE LET n == Len(s)
                      u == Unique(SubSeq(s, 1, n - 1))
                  IN IF s[n] \in Range(u) THEN u ELSE Append(u, s[n])

\* The elements of S in ascending order of rk.
RECURSIVE SortBy(_, _)
SortBy(S, rk) == IF S = {} THEN <<>>
                 ELSE LET m == CHOOSE x \in S : \A y \in S : rk[x] <= rk[y]
                      IN <<m>> \o SortBy(S \ {m}, rk)

\* Lexicographic order of the text values the inputs use.
SortedStrings == <<"ABC1", "Damaged", "FR->IT", "IT->FR", "LYO1", "Lost",
                   "PAR1", "Reason A", "Reason B", "XYZ1">>
StrRank(s) == CHOOSE i \in DOMAIN SortedStrings : SortedStrings[i] = s

\* Elementwise == of a text column with a value: NaN equals nothing.
StrEq(a, b) == a # NaNStr /\ b # NaNStr /\ a = b

(***************************************************************************)
(* Tables                                                                  *)
(***************************************************************************)
CsvColumns == {"shipped_date", "compensated_at_date",
               "delivery_time_business_days", "has_marketplace_cs_ticket",
               "total_compensation", "compensation_reason", "route",
               "from_sc_code", "to_sc_code"}

\* A row holds a cell for every column a run may create; a column exists in
\* a table only when its name is in the table's cols.
Row(route, from, to, dt, comp, reason, shipped, compat, ticket) ==
    [route |-> route, from_sc_code |-> from, to_sc_code |-> to,
     delivery_time_business_days |-> dt, total_compensation |-> comp,
     compensation_reason |-> reason, shipped_date |-> shipped,
     compensated_at_date |-> compat, has_marketplace_cs_ticket |-> ticket,
     resolution_time |-> None, shipped_month_day |-> NoMD,
     shipped_date_mmdd |-> NoMD]

BlankCell == [route |-> NaNStr, from_sc_code |-> NaNStr, to_sc_code |-> NaNStr,
              delivery_time_business_days |-> 0, total_compensation |-> None,
              compensation_reason |-> NaNStr, shipped_date |-> NaT,
              compensated_at_date |-> NaT, has_marketplace_cs_ticket |-> 0]

DataFrame(cols, rows) == [none |-> FALSE, cols |-> cols, rows |-> rows]
NoneDF == [none |-> TRUE, cols |-> {}, rows |-> <<>>]

\* The rows a CSV file may hold.
SampleRows ==
    { Row("IT->FR", "LYO1", "PAR1", 4, Some(100), "Lost",
          Date(2023, 1, 15), Date(2023, 1, 20), 1),
      Row("FR->IT", "XYZ1", "ABC1", 8, None, NaNStr,
          Date(2024, 1, 15), NaT, 0),
      Row("IT->FR", "LYO1", "PAR1", 6, Some(50), "Damaged",
          Date(2024, 1, 15), BadDate, 0),
      Row(NaNStr, "LYO1", "PAR1", 10, Some(50), NaNStr,
          Date(2023, 2, 1), Date(2023, 2, 11), 1),
      Row("FR->IT", NaNStr, "PAR1", 2, Some(0), "Lost",
          Date(2023, 2, 1), Date(2023, 2, 3), 0),
      Row("IT->FR", "XYZ1", "PAR1", 7, None, NaNStr,
          Date(2024, 2, 29), NaT, 1) }

Tables == UNION {[1..n -> SampleRows] : n \in 0..MaxRows}

\* A CSV without column c: its cells do not exist.
WithoutColumn(rows, c) == [i \in DOMAIN rows |-> [rows[i] EXCEPT ![c] = BlankCell[c]]]

Inputs ==
    {[load_ok |-> FALSE, cols |-> {}, rows |-> <<>>]}
    \cup {[load_ok |-> TRUE, cols |-> CsvColumns, rows |-> t] : t \in Tables}
    \cup {[load_ok |-> TRUE, cols |-> CsvColumns \ {c}, rows |-> WithoutColumn(t, c)] :
             t \in Tables, c \in CsvColumns}

Scripts == {"compensation_analysis", "delivery_time",
            "new_cost_per_parcel_analysis", "sc_review"}

\* Reading the two files and concatenating them.
read_and_concat(inp) ==
    IF inp.load_ok
    THEN [raised |-> NoExc, df |-> DataFrame(inp.cols, inp.rows)]
    ELSE [raised |-> "FileNotFoundError", df |-> NoneDF]

\* pd.to_datetime(column): a cell that is not a date raises, unless
\* errors='coerce', which makes it NaT.
to_datetime(d, c, coerce) ==
    IF c \notin d.cols THEN [raised |-> "KeyError", df |-> d]
    ELSE IF ~coerce /\ \E i \in DOMAIN d.rows : d.rows[i][c] = BadDate
    THEN [raised |-> "ValueError", df |-> d]
    ELSE [raised |-> NoExc,
          df |-> [d EXCEPT !.rows = [i \in DOMAIN d.rows |->
                     [d.rows[i] EXCEPT ![c] = IF @ = BadDate THEN NaT ELSE @]]]]

\* The two conversions every script performs, in order.
convert_dates(d) ==
    LET a == to_datetime(d, "shipped_date", FALSE)
    IN IF a.raised # NoExc THEN a
       ELSE to_datetime(a.df, "compensated_at_date", TRUE)

(***************************************************************************)
(* delivery_time.py                                                        *)
(***************************************************************************)
expected_delivery_days == 7
expected_days == 5

\* load_and_preprocess_data: everything happens inside one try block, so a
\* failed read and a failed date conversion both end in "return None".
dt_load_and_preprocess_data(inp) ==
    LET r == read_and_concat(inp)
        c == IF r.raised # NoExc THEN r ELSE convert_dates(r.df)
    IN IF c.raised # NoExc
       THEN [raised |-> NoExc, logged |-> TRUE, df |-> NoneDF]
       ELSE [raised |-> NoExc, logged |-> FALSE, df |-> c.df]

\* (compensated_at_date - shipped_date).dt.days of one row.
resolution_days(r) ==
    IF r.compensated_at_date = NaT \/ r.shipped_date = NaT THEN None
    ELSE Some(Ordinal(r.compensated_at_date) - Ordinal(r.shipped_date))

\* df['resolution_time'] = ...: the table gains (or overwrites) the column.
with_resolution_time(d) ==
    [d EXCEPT !.cols = @ \cup {"resolution_time"},
              !.rows = [i \in DOMAIN d.rows |->
                          [d.rows[i] EXCEPT !.resolution_time = resolution_days(d.rows[i])]]]

\* Faulty variant: the division without the guard on the number of compensated rows.
shipment_weight_unguarded(total_shipments, total_compensated_shipments) ==
    IF total_compensated_shipments = 0
    THEN [raised |-> "ZeroDivisionError", v |-> NaNRat]
    ELSE [raised |-> NoExc,
          v |-> RatMul(Rat(total_shipments, total_compensated_shipments), RatOfInt(100))]

\* (total / compensated) * 100 if compensated else 0
shipment_weight(total_shipments, total_compensated_shipments) ==
    IF total_compensated_shipments # 0
    THEN [raised |-> NoExc,
          v |-> RatMul(Rat(total_shipments, total_compensated_shipments), RatOfInt(100))]
    ELSE [raised |-> NoExc, v |-> RatOfInt(0)]

\* Faulty variant: the compensation rate of calculate_metrics left as a fraction.
dt_compensation_rate_fraction(rows) ==
    MeanBool([i \in DOMAIN rows |-> rows[i].total_compensation.has])

\* df['total_compensation'].notnull().mean() * 100
dt_compensation_rate(rows) ==
    RatMul(MeanBool([i \in DOMAIN rows |-> rows[i].total_compensation.has]),
           RatOfInt(100))

NoMetrics ==
    [avg_delivery_time |-> NaNRat, on_time_delivery_rate |-> NaNRat,
     late_delivery_rate |-> NaNRat, cs_ticket_rate |-> NaNRat,
     compensation_rate |-> NaNRat, avg_compensation_amount |-> NaNRat,
     count_parcels |-> 0, shipment_weight |-> NaNRat,
     resolution_time_avg |-> NaNRat]

dt_metrics_columns == {"total_compensation", "delivery_time_business_days",
                       "has_marketplace_cs_ticket", "compensated_at_date",
                       "shipped_date"}

\* The body of calculate_metrics once the columns are known to exist: sw is
\* the shipment weight and after the table with its resolution_time column.
dt_metrics_of(d, sw, after) ==
    IF sw.raised # NoExc
    THEN [raised |-> sw.raised, metrics |-> NoMetrics, df |-> d]
    ELSE [raised |-> NoExc,
          df |-> after,
          metrics |->
            [avg_delivery_time |->
                 MeanInt(MapCol(d.rows, "delivery_time_business_days")),
             on_time_delivery_rate |->
                 RatMul(MeanBool([i \in DOMAIN d.rows |->
                            d.rows[i].delivery_time_business_days <= expected_delivery_days]),
                        RatOfInt(100)),
             late_delivery_rate |->
                 RatMul(MeanBool([i \in DOMAIN d.rows |->
                            d.rows[i].delivery_time_business_days > expected_delivery_days]),
                        RatOfInt(100)),
             cs_ticket_rate |->
                 RatMul(MeanInt(MapCol(d.rows, "has_marketplace_cs_ticket")),
                        RatOfInt(100)),
             compensation_rate |-> dt_compensation_rate(d.rows),
             avg_compensation_amount |->
                 MeanOpt(MapCol(d.rows, "total_compensation")),
             count_parcels |-> Len(d.rows),
             shipment_weight |-> sw.v,
             resolution_time_avg |->
                 MeanOpt(MapCol(after.rows, "resolution_time"))]]

\* calculate_metrics(df): the metrics, and the table as the call leaves it.
dt_calculate_metrics(d) ==
    IF ~(dt_metrics_columns \subseteq d.cols)
    THEN [raised |-> "KeyError", metrics |-> NoMetrics, df |-> d]
    ELSE dt_metrics_of(d,
            shipment_weight(Len(d.rows),
                Len(SelectSeq(d.rows, LAMBDA r : r.total_compensation.has))),
            with_resolution_time(d))

\* df[df['route'] == route]: a new table of the rows whose route equals it.
route_df(d, route) ==
    [d EXCEPT !.rows = SelectSeq(d.rows, LAMBDA r : StrEq(r.route, route))]

\* The keys of df.groupby(['from_sc_code', 'to_sc_code']): sorted, and a row
\* with NaN in either key column belongs to no group.
pair_rank(k) == StrRank(k[1]) * (Len(SortedStrings) + 1) + StrRank(k[2])

sorted_pairs(K) == SortBy(K, [k \in K |-> pair_rank(k)])

sc_keys(d) ==
    sorted_pairs({<<d.rows[i].from_sc_code, d.rows[i].to_sc_code>> : i \in
                    {j \in DOMAIN d.rows : /\ d.rows[j].from_sc_code # NaNStr
                                           /\ d.rows[j].to_sc_code # NaNStr}})

sc_group_df(d, k) ==
    [d EXCEPT !.rows = SelectSeq(d.rows, LAMBDA r : /\ r.from_sc_code = k[1]
                                                     /\ r.to_sc_code = k[2])]

\* One call of calculate_metrics from analyze_and_consolidate, with its
\* result c tagged.
tagged_call(part, type, identifier, c) ==
    [raised |-> c.raised, input |-> part, after |-> c.df,
     entry |-> [type |-> type, identifier |-> identifier, metrics |-> c.metrics]]

consolidate_call(part, type, identifier) ==
    tagged_call(part, type, identifier, dt_calculate_metrics(part))

\* The loop over the routes.
route_calls(d, routes) ==
    [i \in DOMAIN routes |-> consolidate_call(route_df(d, routes[i]), "Route", routes[i])]

\* The loop over the groups of (from_sc_code, to_sc_code).
sc_calls(d, keys) ==
    [i \in DOMAIN keys |->
        consolidate_call(sc_group_df(d, keys[i]), "Sortation Center",
                         keys[i][1] \o " -> " \o keys[i][2])]

NoConsolidated == [raised |-> NoExc, consolidated |-> <<>>, calls |-> <<>>]

\* The calls in order: the first that raises ends the function; otherwise
\* their entries are the consolidated table.
consolidated_of(calls) ==
    IF \E i \in DOMAIN calls : calls[i].raised # NoExc
    THEN [NoConsolidated EXCEPT !.raised =
             calls[CHOOSE i \in DOMAIN calls :
                      /\ calls[i].raised # NoExc
                      /\ \A j \in 1..(i - 1) : calls[j].raised = NoExc].raised]
    ELSE [raised |-> NoExc,
          consolidated |-> [i \in DOMAIN calls |-> calls[i].entry],
          calls |-> [i \in DOMAIN calls |->
                       [input |-> calls[i].input, after |-> calls[i].after,
                        metrics |-> calls[i].entry.metrics]]]

\* What follows the loop over the routes, whose calls are rcalls.
consolidate_after_routes(d, rcalls) ==
    IF \E i \in DOMAIN rcalls : rcalls[i].raised # NoExc
    THEN consolidated_of(rcalls)
    ELSE IF ~({"from_sc_code", "to_sc_code"} \subseteq d.cols)
    THEN [NoConsolidated EXCEPT !.raised = "KeyError"]
    ELSE consolidated_of(rcalls \o sc_calls(d, sc_keys(d)))

analyze_and_consolidate(d) ==
    IF "route" \notin d.cols
    THEN [NoConsolidated EXCEPT !.raised = "KeyError"]
    ELSE consolidate_after_routes(d, route_calls(d, Unique(MapCol(d.rows, "route"))))

\* groupby(key).agg(mean, mean).dropna() over rows whose keys are mmdd: one
\* row per key in key order, a row with NaN as its key in no group, and a
\* group with an undefined mean dropped.
md_rank(k) == k.m * 100 + k.d

per_day_reduction(rows, mmdd) ==
    LET K == Range(mmdd) \ {NoMD}
        keys == SortBy(K, [k \in K |-> md_rank(k)])
        group(k) == {i \in DOMAIN rows : mmdd[i] = k}
        col(k, c) == LET idx == SortBy(group(k), [i \in group(k) |-> i])
                     IN [j \in DOMAIN idx |-> rows[idx[j]][c]]
        agg == [i \in DOMAIN keys |->
                  [shipped_date_mmdd |-> keys[i],
                   avg_delivery_time |->
                       MeanInt(col(keys[i], "delivery_time_business_days")),
                   avg_compensation_amount |->
                       MeanOpt(col(keys[i], "total_compensation"))]]
    IN SelectSeq(agg, LAMBDA a : /\ ~IsNaN(a.avg_delivery_time)
                                 /\ ~IsNaN(a.avg_compensation_amount))

\* Faulty variant: the year is kept in the grouping key.
dt_mmdd_key_with_year(r) == MD(r.shipped_date.m + 12 * (r.shipped_date.y % 2), r.shipped_date.d)

dt_mmdd_key(r) == strftime_mmdd(r.shipped_date)

dt_correlation_columns == {"shipped_date", "delivery_time_business_days",
                           "total_compensation"}

\* delivery_time.analyze_seasonal_patterns: the shared table gains the
\* shipped_month_day column (the chart is not modelled).
dt_analyze_seasonal_patterns(d) ==
    IF ~(dt_correlation_columns \subseteq d.cols)
    THEN [raised |-> "KeyError", df |-> d]
    ELSE [raised |-> NoExc,
          df |-> [d EXCEPT !.cols = @ \cup {"shipped_month_day"},
                           !.rows = [i \in DOMAIN d.rows |->
                               [d.rows[i] EXCEPT !.shipped_month_day =
                                   strftime_mmdd(d.rows[i].shipped_date)]]]]

\* delivery_time.analyze_correlation: the shared table gains the
\* shipped_date_mmdd column; the reduced table is what is saved.
dt_analyze_correlation(d) ==
    IF ~(dt_correlation_columns \subseteq d.cols)
    THEN [raised |-> "KeyError", df |-> d, grouped |-> <<>>]
    ELSE [raised |-> NoExc,
          df |-> [d EXCEPT !.cols = @ \cup {"shipped_date_mmdd"},
                           !.rows = [i \in DOMAIN d.rows |->
                               [d.rows[i] EXCEPT !.shipped_date_mmdd =
                                   dt_mmdd_key(d.rows[i])]]],
          grouped |-> per_day_reduction(d.rows, [i \in DOMAIN d.rows |-> dt_mmdd_key(d.rows[i])])]

NoText == [average_delivery_time |-> NaNRat, on_time_delivery_rate |-> NaNRat,
           compensation_rate |-> NaNRat, avg_compensation_amount |-> NaNRat,
           cs_ticket_rate |-> NaNRat, resolution_time_avg |-> NaNRat,
           written |-> FALSE]

\* df['total_compensation'].notnull().mean()
text_compensation_rate(rows) ==
    MeanBool([i \in DOMAIN rows |-> rows[i].total_compensation.has])

\* analyze_to_text: rates are fractions here, and the threshold is 5 days.
analyze_to_text(d) ==
    LET rows == d.rows
        after == with_resolution_time(d)
    IN IF ~(dt_metrics_columns \subseteq d.cols)
       THEN [raised |-> "KeyError", df |-> d, text |-> NoText]
       ELSE [raised |-> NoExc,
             df |-> after,
             text |->
               [average_delivery_time |->
                    MeanInt(MapCol(rows, "delivery_time_business_days")),
                on_time_delivery_rate |->
                    MeanBool([i \in DOMAIN rows |->
                        rows[i].delivery_time_business_days <= expected_days]),
                compensation_rate |-> text_compensation_rate(rows),
                avg_compensation_amount |->
                    MeanOpt(MapCol(rows, "total_compensation")),
                cs_ticket_rate |->
                    MeanInt(MapCol(rows, "has_marketplace_cs_ticket")),
                resolution_time_avg |->
                    MeanOpt(MapCol(after.rows, "resolution_time")),
                written |-> TRUE]]

(***************************************************************************)
(* compensation_analysis.py                                                *)
(***************************************************************************)
\* load_data: the read is inside a try block; a failure is printed and None
\* is returned.
load_data(inp) ==
    LET r == read_and_concat(inp)
    IN IF r.raised # NoExc
       THEN [raised |-> NoExc, logged |-> TRUE, df |-> NoneDF]
       ELSE [raised |-> NoExc, logged |-> FALSE, df |-> r.df]

\* preprocess_data: the conversions, outside any try block.
preprocess_data(d) == convert_dates(d)

RECURSIVE InsertSorted(_, _)
InsertSorted(s, x) == IF s = <<>> THEN <<x>>
                      ELSE IF x <= Head(s) THEN <<x>> \o s
                      ELSE <<Head(s)>> \o InsertSorted(Tail(s), x)
RECURSIVE SortInts(_)
SortInts(s) == IF s = <<>> THEN <<>> ELSE InsertSorted(SortInts(Tail(s)), Head(s))

Median(s) == LET t == SortInts(s)
                 n == Len(t)
             IN IF n = 0 THEN NaNRat
                ELSE IF n % 2 = 1 THEN RatOfInt(t[(n + 1) \div 2])
                ELSE Rat(t[n \div 2] + t[n \div 2 + 1], 2)
MaxOf(s) == IF s = <<>> THEN NaNRat
            ELSE RatOfInt(CHOOSE x \in Range(s) : \A y \in Range(s) : y <= x)
MinOf(s) == IF s = <<>> THEN NaNRat
            ELSE RatOfInt(CHOOSE x \in Range(s) : \A y \in Range(s) : x <= y)

\* The keys of groupby('compensation_reason'): sorted, and a row whose
\* reason is NaN belongs to no group.
reason_keys(rows) ==
    LET K == {rows[i].compensation_reason : i \in DOMAIN rows} \ {NaNStr}
    IN SortBy(K, [k \in K |-> StrRank(k)])

NoSummary == [total_compensation |-> NaNRat, avg_compensation |-> NaNRat,
              median_compensation |-> NaNRat, max_compensation |-> NaNRat,
              min_compensation |-> NaNRat, written |-> FALSE]

\* analyze_compensations: the summary of the amounts, then one row per
\* compensation reason with its two weights.
analyze_compensations(d) ==
    LET compensation_df == SelectSeq(d.rows, LAMBDA r : r.total_compensation.has)
        amounts == DropNa(MapCol(compensation_df, "total_compensation"))
        total_compensated_transactions == Len(compensation_df)
        total_compensation == SumSeq(amounts)
        summary == [total_compensation |-> RatOfInt(total_compensation),
                    avg_compensation |-> MeanInt(amounts),
                    median_compensation |-> Median(amounts),
                    max_compensation |-> MaxOf(amounts),
                    min_compensation |-> MinOf(amounts),
                    written |-> TRUE]
        keys == reason_keys(compensation_df)
        by_reason ==
            [i \in DOMAIN keys |->
               LET g == DropNa(MapCol(SelectSeq(compensation_df,
                            LAMBDA r : r.compensation_reason = keys[i]),
                            "total_compensation"))
               IN [compensation_reason |-> keys[i],
                   count |-> Len(g),
                   total_amount |-> SumSeq(g),
                   avg_amount |-> MeanInt(g),
                   transaction_weight |->
                       RatMul(RatDiv(RatOfInt(Len(g)),
                                     RatOfInt(total_compensated_transactions)),
                              RatOfInt(100)),
                   amount_weight |->
                       RatMul(RatDiv(RatOfInt(SumSeq(g)),
                                     RatOfInt(total_compensation)),
                              RatOfInt(100))]]
    IN IF "total_compensation" \notin d.cols
       THEN [raised |-> "KeyError", summary |-> NoSummary, by_reason |-> <<>>]
       ELSE IF "compensation_reason" \notin d.cols
       THEN [raised |-> "KeyError", summary |-> summary, by_reason |-> <<>>]
       ELSE [raised |-> NoExc, summary |-> summary, by_reason |-> by_reason]

\* compensation_analysis.analyze_seasonal_patterns: the shared table gains
\* the shipped_month_day column (the chart and its pivot are not modelled).
ca_analyze_seasonal_patterns(d) ==
    IF ~({"shipped_date", "compensation_reason", "total_compensation"} \subseteq d.cols)
    THEN [raised |-> "KeyError", df |-> d]
    ELSE [raised |-> NoExc,
          df |-> [d EXCEPT !.cols = @ \cup {"shipped_month_day"},
                           !.rows = [i \in DOMAIN d.rows |->
                               [d.rows[i] EXCEPT !.shipped_month_day =
                                   strftime_mmdd(d.rows[i].shipped_date)]]]]

(***************************************************************************)
(* new_cost_per_parcel_analysis.py                                         *)
(***************************************************************************)
ORIGINAL_COST_PER_PARCEL == Rat(681, 100)

scenarios == <<[scenario |-> "pessimistic", rate |-> Rat(1, 100)],
               [scenario |-> "neutral", rate |-> Rat(5, 100)],
               [scenario |-> "optimistic", rate |-> Rat(8, 100)]>>

\* Faulty variant: the percentage used as a fraction.
new_total_volume_unscaled(total_shipments, volume_increase_percentage) ==
    RatMul(RatOfInt(total_shipments),
           RatAdd(RatOfInt(1), volume_increase_percentage))

\* total_shipments * (1 + (volume_increase_percentage / 100))
new_total_volume(total_shipments, volume_increase_percentage) ==
    RatMul(RatOfInt(total_shipments),
           RatAdd(RatOfInt(1), RatDiv(volume_increase_percentage, RatOfInt(100))))

NoCostMetrics ==
    [average_volume_increase_per_day |-> NaNRat,
     original_avg_delivery_time |-> NaNRat, improved_avg_delivery_time |-> NaNRat,
     original_total_volume |-> 0, new_total_volume |-> NaNRat,
     original_total_cost |-> NaNRat, new_cost_per_parcel |-> NaNRat,
     volume_increase_percentage |-> NaNRat, delivery_time_reduction |-> NaNRat]

\* new_cost_per_parcel_analysis.calculate_metrics
ncpp_calculate_metrics(d, volume_increase_per_day) ==
    LET total_shipments == Len(d.rows)
        avg_delivery_time == MeanInt(MapCol(d.rows, "delivery_time_business_days"))
        improved_avg_delivery_time == RatMul(avg_delivery_time, Rat(90, 100))
        delivery_time_reduction == RatSub(avg_delivery_time, improved_avg_delivery_time)
        volume_increase_percentage ==
            RatMul(RatMul(delivery_time_reduction, volume_increase_per_day),
                   RatOfInt(100))
        ntv == new_total_volume(total_shipments, volume_increase_percentage)
        original_total_cost == RatMul(RatOfInt(total_shipments), ORIGINAL_COST_PER_PARCEL)
        new_cost_per_parcel == RatDiv(original_total_cost, ntv)
    IN IF "delivery_time_business_days" \notin d.cols
       THEN [raised |-> "KeyError", metrics |-> NoCostMetrics]
       ELSE [raised |-> NoExc,
             metrics |->
               [average_volume_increase_per_day |-> volume_increase_per_day,
                original_avg_delivery_time |-> avg_delivery_time,
                improved_avg_delivery_time |-> improved_avg_delivery_time,
                original_total_volume |-> total_shipments,
                new_total_volume |-> ntv,
                original_total_cost |-> original_total_cost,
                new_cost_per_parcel |-> new_cost_per_parcel,
                volume_increase_percentage |-> volume_increase_percentage,
                delivery_time_reduction |-> delivery_time_reduction]]

\* The scenario loop of main: one result per scenario, in dictionary order.
ncpp_scenario_results(d) ==
    LET rs == [i \in DOMAIN scenarios |-> ncpp_calculate_metrics(d, scenarios[i].rate)]
    IN IF \E i \in DOMAIN rs : rs[i].raised # NoExc
       THEN [raised |-> "KeyError", results |-> <<>>]
       ELSE [raised |-> NoExc,
             results |-> [i \in DOMAIN rs |->
                            [scenario |-> scenarios[i].scenario,
                             metrics |-> rs[i].metrics]]]

(***************************************************************************)
(* sc_review.py                                                            *)
(***************************************************************************)
required_columns == <<"route", "from_sc_code", "to_sc_code",
                      "delivery_time_business_days", "total_compensation",
                      "shipped_date", "compensation_reason">>

\* The number of days in pd.date_range('1/1/2021', '1/31/2021', freq='D').
date_range_days == 31

\* The placeholder cell of row i (counted from 1; the code counts from 0).
placeholder(column, i) ==
    CASE column = "route" -> IF (i - 1) % 2 = 0 THEN "IT->FR" ELSE "FR->IT"
      [] column = "from_sc_code" -> IF (i - 1) % 2 = 0 THEN "LYO1" ELSE "XYZ1"
      [] column = "to_sc_code" -> IF (i - 1) % 2 = 0 THEN "PAR1" ELSE "ABC1"
      [] column = "delivery_time_business_days" -> i - 1
      [] column = "total_compensation" -> Some(100 + (i - 1))
      [] column = "shipped_date" -> Date(2021, 1, i)
      [] column = "compensation_reason" ->
            IF (i - 1) % 2 = 0 THEN "Reason A" ELSE "Reason B"

\* df[column] = <placeholder values>.  The date range has a fixed length and
\* assigning it to a table of another height raises.
synthesize(d, column) ==
    IF column = "shipped_date" /\ Len(d.rows) # date_range_days
    THEN [raised |-> "ValueError", df |-> d]
    ELSE [raised |-> NoExc,
          df |-> [d EXCEPT !.cols = @ \cup {column},
                           !.rows = [i \in DOMAIN d.rows |->
                               [d.rows[i] EXCEPT ![column] = placeholder(column, i)]]]]

\* The loop over required_columns, from position k on.
RECURSIVE fill_missing_columns(_, _)
fill_missing_columns(d, k) ==
    IF k > Len(required_columns) THEN [raised |-> NoExc, df |-> d]
    ELSE IF required_columns[k] \in d.cols THEN fill_missing_columns(d, k + 1)
    ELSE LET s == synthesize(d, required_columns[k])
         IN IF s.raised # NoExc THEN s ELSE fill_missing_columns(s.df, k + 1)

\* df[(df['from_sc_code'] == "LYO1") & (df['to_sc_code'] == "PAR1")]
sc_filter(rows) ==
    SelectSeq(rows, LAMBDA r : /\ StrEq(r.from_sc_code, "LYO1")
                               /\ StrEq(r.to_sc_code, "PAR1"))

\* sc_review.analyze_correlation: the reduction runs over a filtered copy;
\* the table of main is left as it is.
sc_analyze_correlation(d) ==
    LET rows == sc_filter(d.rows)
    IN IF ~({"from_sc_code", "to_sc_code", "shipped_date",
             "delivery_time_business_days", "total_compensation"} \subseteq d.cols)
       THEN [raised |-> "KeyError", grouped |-> <<>>]
       ELSE [raised |-> NoExc,
             grouped |-> per_day_reduction(rows,
                            [i \in DOMAIN rows |-> strftime_mmdd(rows[i].shipped_date)])]

\* groupby('compensation_reason').agg(size, mean) of the whole table, in key
\* order (before sort_values).
reason_groups(d) ==
    LET keys == reason_keys(d.rows)
    IN [i \in DOMAIN keys |->
          LET g == SelectSeq(d.rows, LAMBDA r : r.compensation_reason = keys[i])
          IN [compensation_reason |-> keys[i],
              count |-> Len(g),
              average_compensation_amount |->
                  MeanOpt(MapCol(g, "total_compensation"))]]

\* The orders sort_values(by='count', ascending=False) may give: the sort is
\* not stable, so rows of equal count may come in any order.
sorted_by_count(groups) ==
    {s \in [DOMAIN groups -> Range(groups)] :
        /\ Range(s) = Range(groups)
        /\ \A i \in DOMAIN s : i > 1 => s[i - 1].count >= s[i].count}

analyze_compensation_reasons(d) ==
    IF ~({"compensation_reason", "total_compensation"} \subseteq d.cols)
    THEN [raised |-> "KeyError", orders |-> {<<>>}]
    ELSE [raised |-> NoExc, orders |-> sorted_by_count(reason_groups(d))]

(***************************************************************************)
(* The runs                                                                *)
(***************************************************************************)
NoOut == [consolidated |-> <<>>, calls |-> <<>>, grouped |-> <<>>,
          text |-> NoText, summary |-> NoSummary, by_reason |-> <<>>,
          results |-> <<>>, reasons |-> <<>>]

Init ==
    /\ script \in Scripts
    /\ input \in Inputs
    /\ pc = "load"
    /\ df = NoneDF
    /\ raised = NoExc
    /\ logged = FALSE
    /\ ran = <<>>
    /\ out = NoOut

\* A step of main after the load: it ran, and an exception it raises ends
\* the run, since no main catches anything.
Step(name, exc, next) ==
    /\ ran' = Append(ran, name)
    /\ raised' = exc
    /\ pc' = IF exc # NoExc THEN "crashed" ELSE next

\* compensation_analysis.main
CA_load_data ==
    /\ script = "compensation_analysis"
    /\ pc = "load"
    /\ \E r \in {load_data(input)} :
          /\ df' = r.df
          /\ logged' = r.logged
          /\ pc' = IF r.df.none THEN "done" ELSE "preprocess_data"
    /\ UNCHANGED <<script, input, raised, ran, out>>

CA_preprocess_data ==
    /\ script = "compensation_analysis"
    /\ pc = "preprocess_data"
    /\ \E r \in {preprocess_data(df)} :
          /\ df' = r.df
          /\ Step("preprocess_data", r.raised, "analyze_compensations")
    /\ UNCHANGED <<script, input, logged, out>>

CA_analyze_compensations ==
    /\ script = "compensation_analysis"
    /\ pc = "analyze_compensations"
    /\ \E r \in {analyze_compensations(df)} :
          /\ out' = [out EXCEPT !.summary = r.summary, !.by_reason = r.by_reason]
          /\ Step("analyze_compensations", r.raised, "analyze_seasonal_patterns")
    /\ UNCHANGED <<script, input, logged, df>>

CA_analyze_seasonal_patterns ==
    /\ script = "compensation_analysis"
    /\ pc = "analyze_seasonal_patterns"
    /\ \E r \in {ca_analyze_seasonal_patterns(df)} :
          /\ df' = r.df
          /\ Step("analyze_seasonal_patterns", r.raised, "done")
    /\ UNCHANGED <<script, input, logged, out>>

\* delivery_time.main
DT_load_and_preprocess_data ==
    /\ script = "delivery_time"
    /\ pc = "load"
    /\ \E r \in {dt_load_and_preprocess_data(input)} :
          /\ df' = r.df
          /\ logged' = r.logged
          /\ pc' = IF r.df.none THEN "done" ELSE "analyze_and_consolidate"
    /\ UNCHANGED <<script, input, raised, ran, out>>

DT_analyze_and_consolidate ==
    /\ script = "delivery_time"
    /\ pc = "analyze_and_consolidate"
    /\ \E r \in {analyze_and_consolidate(df)} :
          /\ out' = [out EXCEPT !.consolidated = r.consolidated, !.calls = r.calls]
          /\ Step("analyze_and_consolidate", r.raised, "analyze_seasonal_patterns")
    /\ UNCHANGED <<script, input, logged, df>>

DT_analyze_seasonal_patterns ==
    /\ script = "delivery_time"
    /\ pc = "analyze_seasonal_patterns"
    /\ \E r \in {dt_analyze_seasonal_patterns(df)} :
          /\ df' = r.df
          /\ Step("analyze_seasonal_patterns", r.raised, "analyze_correlation")
    /\ UNCHANGED <<script, input, logged, out>>

DT_analyze_correlation ==
    /\ script = "delivery_time"
    /\ pc = "analyze_correlation"
    /\ \E r \in {dt_analyze_correlation(df)} :
          /\ df' = r.df
          /\ out' = [out EXCEPT !.grouped = r.grouped]
          /\ Step("analyze_correlation", r.raised, "analyze_to_text")
    /\ UNCHANGED <<script, input, logged>>

DT_analyze_to_text ==
    /\ script = "delivery_time"
    /\ pc = "analyze_to_text"
    /\ \E r \in {analyze_to_text(df)} :
          /\ df' = r.df
          /\ out' = [out EXCEPT !.text = r.text]
          /\ Step("analyze_to_text", r.raised, "done")
    /\ UNCHANGED <<script, input, logged>>

\* new_cost_per_parcel_analysis.main: nothing is caught.
NC_read ==
    /\ script = "new_cost_per_parcel_analysis"
    /\ pc = "load"
    /\ \E r \in {read_and_concat(input)} :
          /\ df' = r.df
          /\ raised' = r.raised
          /\ pc' = IF r.raised # NoExc THEN "crashed" ELSE "convert_dates"
    /\ UNCHANGED <<script, input, logged, ran, out>>

NC_convert_dates ==
    /\ script = "new_cost_per_parcel_analysis"
    /\ pc = "convert_dates"
    /\ \E r \in {convert_dates(df)} :
          /\ df' = r.df
          /\ Step("convert_dates", r.raised, "scenarios")
    /\ UNCHANGED <<script, input, logged, out>>

NC_scenarios ==
    /\ script = "new_cost_per_parcel_analysis"
    /\ pc = "scenarios"
    /\ \E r \in {ncpp_scenario_results(df)} :
          /\ out' = [out EXCEPT !.results = r.results]
          /\ Step("scenarios", r.raised, "done")
    /\ UNCHANGED <<script, input, logged, df>>

\* sc_review.main: nothing is caught.
SC_read ==
    /\ script = "sc_review"
    /\ pc = "load"
    /\ \E r \in {read_and_concat(input)} :
          /\ df' = r.df
          /\ raised' = r.raised
          /\ pc' = IF r.raised # NoExc THEN "crashed" ELSE "convert_dates"
    /\ UNCHANGED <<script, input, logged, ran, out>>

SC_convert_dates ==
    /\ script = "sc_review"
    /\ pc = "convert_dates"
    /\ \E r \in {convert_dates(df)} :
          /\ df' = r.df
          /\ Step("convert_dates", r.raised, "fill_missing_columns")
    /\ UNCHANGED <<script, input, logged, out>>

SC_fill_missing_columns ==
    /\ script = "sc_review"
    /\ pc = "fill_missing_columns"
    /\ \E r \in {fill_missing_columns(df, 1)} :
          /\ df' = r.df
          /\ Step("fill_missing_columns", r.raised, "analyze_correlation")
    /\ UNCHANGED <<script, input, logged, out>>

SC_analyze_correlation ==
    /\ script = "sc_review"
    /\ pc = "analyze_correlation"
    /\ \E r \in {sc_analyze_correlation(df)} :
          /\ out' = [out EXCEPT !.grouped = r.grouped]
          /\ Step("analyze_correlation", r.raised, "analyze_compensation_reasons")
    /\ UNCHANGED <<script, input, logged, df>>

SC_analyze_compensation_reasons ==
    /\ script = "sc_review"
    /\ pc = "analyze_compensation_reasons"
    /\ \E r \in {analyze_compensation_reasons(df)} :
          /\ \E order \in r.orders : out' = [out EXCEPT !.reasons = order]
          /\ Step("analyze_compensation_reasons", r.raised, "done")
    /\ UNCHANGED <<script, input, logged, df>>

Next ==
    \/ CA_load_data
    \/ CA_preprocess_data
    \/ CA_analyze_compensations
    \/ CA_analyze_seasonal_patterns
    \/ DT_load_and_preprocess_data
    \/ DT_analyze_and_consolidate
    \/ DT_analyze_seasonal_patterns
    \/ DT_analyze_correlation
    \/ DT_analyze_to_text
    \/ NC_read
    \/ NC_convert_dates
    \/ NC_scenarios
    \/ SC_read
    \/ SC_convert_dates
    \/ SC_fill_missing_columns
    \/ SC_analyze_correlation
    \/ SC_analyze_compensation_reasons

Spec == Init /\ [][Next]_vars

(***************************************************************************)
(* Properties                                                              *)
(***************************************************************************)
Did(step) == step \in Range(ran)
AllColumns == input.load_ok /\ input.cols = CsvColumns
Compensated(rows) == {i \in DOMAIN rows : rows[i].total_compensation.has}

RECURSIVE SumRats(_)
SumRats(s) == IF s = <<>> THEN RatOfInt(0) ELSE RatAdd(Head(s), SumRats(Tail(s)))

\* C1: in the reason breakdown of analyze_compensations, whenever the table
\* has a compensated row, the transaction_weight values of the reported
\* reasons sum to 100 and so do the amount_weight values.
C1_WeightsSumTo100 ==
    (/\ script = "compensation_analysis"
     /\ AllColumns
     /\ Did("analyze_compensations")
     /\ raised = NoExc
     /\ Compensated(df.rows) # {})
    => /\ RatEq(SumRats(MapCol(out.by_reason, "transaction_weight")), RatOfInt(100))
       /\ RatEq(SumRats(MapCol(out.by_reason, "amount_weight")), RatOfInt(100))

\* C2: every call of delivery_time.calculate_metrics on a partition of a
\* table with all its columns completes without raising; with no
\* compensated row shipment_weight is exactly 0 and the means and rates that
\* have no data are NaN (all of them for a partition of no rows); with a
\* compensated row shipment_weight is rows / compensated rows * 100.
C2_ShipmentWeightGuarded ==
    (script = "delivery_time" /\ AllColumns /\ Did("analyze_and_consolidate"))
    => /\ ran[1] = "analyze_and_consolidate"
       /\ Len(ran) = 1 => raised = NoExc
       /\ \A i \in DOMAIN out.calls :
            LET rows == out.calls[i].input.rows
                m == out.calls[i].metrics
                n == Len(rows)
                k == Cardinality(Compensated(rows))
                dated == {j \in DOMAIN rows : /\ rows[j].compensated_at_date # NaT
                                              /\ rows[j].shipped_date # NaT}
            IN /\ m.count_parcels = n
               /\ k = 0 => /\ m.shipment_weight = [n |-> 0, d |-> 1]
                           /\ IsNaN(m.avg_compensation_amount)
               /\ n = 0 => /\ IsNaN(m.avg_delivery_time)
                           /\ IsNaN(m.on_time_delivery_rate)
                           /\ IsNaN(m.late_delivery_rate)
                           /\ IsNaN(m.cs_ticket_rate)
                           /\ IsNaN(m.compensation_rate)
               /\ dated = {} => IsNaN(m.resolution_time_avg)
               /\ k > 0 => /\ m.shipment_weight.d > 0
                           /\ m.shipment_weight.n * k = n * 100 * m.shipment_weight.d

\* A run in which calculate_metrics was given a partition of no rows, a
\* partition of rows none of which is compensated, and a partition with a
\* compensated row.
C2_Witness ==
    /\ script = "delivery_time"
    /\ AllColumns
    /\ pc = "done"
    /\ \E i \in DOMAIN out.calls : Len(out.calls[i].input.rows) = 0
    /\ \E i \in DOMAIN out.calls : /\ Len(out.calls[i].input.rows) > 0
                                   /\ Compensated(out.calls[i].input.rows) = {}
    /\ \E i \in DOMAIN out.calls : Compensated(out.calls[i].input.rows) # {}

\* C3 as stated: for a table that is not empty, the compensation rate of
\* calculate_metrics and of analyze_to_text lies in [0,1] and is the number
\* of rows with a compensation amount divided by the number of rows.
C3_RateIsFraction ==
    script = "delivery_time"
    => /\ \A i \in DOMAIN out.calls :
            LET rows == out.calls[i].input.rows
                r == out.calls[i].metrics.compensation_rate
            IN Len(rows) > 0 =>
                 /\ r.d > 0 /\ 0 <= r.n /\ r.n <= r.d
                 /\ r.n * Len(rows) = Cardinality(Compensated(rows)) * r.d
       /\ (out.text.written /\ Len(df.rows) > 0) =>
            LET r == out.text.compensation_rate
            IN /\ r.d > 0 /\ 0 <= r.n /\ r.n <= r.d
               /\ r.n * Len(df.rows) = Cardinality(Compensated(df.rows)) * r.d

\* C3 amended: for a table that is not empty, analyze_to_text's rate is the
\* fraction of rows with a compensation amount, in [0,1]; calculate_metrics'
\* compensation_rate is that fraction times 100, in [0,100].
C3_RateFractionAndPercent ==
    script = "delivery_time"
    => /\ \A i \in DOMAIN out.calls :
            LET rows == out.calls[i].input.rows
                r == out.calls[i].metrics.compensation_rate
            IN Len(rows) > 0 =>
                 /\ r.d > 0 /\ 0 <= r.n /\ r.n <= 100 * r.d
                 /\ r.n * Len(rows) = 100 * Cardinality(Compensated(rows)) * r.d
       /\ (out.text.written /\ Len(df.rows) > 0) =>
            LET r == out.text.compensation_rate
            IN /\ r.d > 0 /\ 0 <= r.n /\ r.n <= r.d
               /\ r.n * Len(df.rows) = Cardinality(Compensated(df.rows)) * r.d

\* A finished run over a table with compensated and uncompensated rows,
\* with a partition that holds both.
C3_Witness ==
    /\ script = "delivery_time"
    /\ pc = "done"
    /\ out.text.written
    /\ Compensated(df.rows) \notin {{}, DOMAIN df.rows}
    /\ \E i \in DOMAIN out.calls :
          Compensated(out.calls[i].input.rows) \notin {{}, DOMAIN out.calls[i].input.rows}

\* C4: for each of the three scenarios and every table that is not empty,
\* the stored values follow the formula chain: improved = 90% of original,
\* reduction = original - improved, percentage = reduction * rate * 100,
\* new volume = original volume * (1 + percentage / 100), total cost =
\* rows * 6.81 and new cost per parcel = total cost / new volume.
C4_CostFormulaChain ==
    (/\ script = "new_cost_per_parcel_analysis"
     /\ Did("scenarios")
     /\ raised = NoExc
     /\ Len(df.rows) > 0)
    => /\ Len(out.results) = 3
       /\ out.results[1].scenario = "pessimistic"
       /\ out.results[1].metrics.average_volume_increase_per_day = [n |-> 1, d |-> 100]
       /\ out.results[2].scenario = "neutral"
       /\ out.results[2].metrics.average_volume_increase_per_day = [n |-> 1, d |-> 20]
       /\ out.results[3].scenario = "optimistic"
       /\ out.results[3].metrics.average_volume_increase_per_day = [n |-> 2, d |-> 25]
       /\ \A i \in DOMAIN out.results :
            LET m == out.results[i].metrics
                o == m.original_avg_delivery_time
            IN /\ m.original_total_volume = Len(df.rows)
               /\ o.d > 0
               /\ o.n * Len(df.rows) =
                      SumSeq(MapCol(df.rows, "delivery_time_business_days")) * o.d
               /\ m.improved_avg_delivery_time.n * o.d * 10 =
                      9 * o.n * m.improved_avg_delivery_time.d
               /\ RatEq(m.delivery_time_reduction,
                        RatSub(o, m.improved_avg_delivery_time))
               /\ RatEq(m.volume_increase_percentage,
                        RatMul(RatMul(m.delivery_time_reduction,
                                      m.average_volume_increase_per_day),
                               RatOfInt(100)))
               /\ RatEq(RatMul(m.new_total_volume, RatOfInt(100)),
                        RatMul(RatOfInt(m.original_total_volume),
                               RatAdd(RatOfInt(100), m.volume_increase_percentage)))
               /\ m.original_total_cost.n * 100 =
                      Len(df.rows) * 681 * m.original_total_cost.d
               /\ RatEq(RatMul(m.new_cost_per_parcel, m.new_total_volume),
                        m.original_total_cost)

\* A finished projection over a table of rows with different delivery times.
C4_Witness ==
    /\ script = "new_cost_per_parcel_analysis"
    /\ pc = "done"
    /\ Len(out.results) = 3
    /\ Len(df.rows) > 1
    /\ \E i, j \in DOMAIN df.rows :
          df.rows[i].delivery_time_business_days # df.rows[j].delivery_time_business_days

\* C5: in every script, a failed read of the input files is caught and
\* logged, no later step runs and no exception leaves main.
C5_LoadFailureGraceful ==
    (~input.load_ok /\ pc # "load")
    => /\ pc = "done"
       /\ raised = NoExc
       /\ logged
       /\ ran = <<>>

\* C6: delivery_time.calculate_metrics leaves the table it was given with
\* the columns and the values it had.
C6_NoSideEffects ==
    \A i \in DOMAIN out.calls : out.calls[i].after = out.calls[i].input

\* C7: analyze_and_consolidate gives one Route entry per distinct route
\* value, identified by it, then one Sortation Center entry per distinct
\* (from, to) pair of the table, identified by "FROM -> TO"; the metrics of
\* an entry are calculate_metrics of the rows of its partition.
C7_OneEntryPerPartition ==
    (/\ script = "delivery_time"
     /\ AllColumns
     /\ Did("analyze_and_consolidate"))
    => LET rows == input.rows
           es == out.consolidated
           routes == {rows[i].route : i \in DOMAIN rows}
           pairs == {<<rows[i].from_sc_code, rows[i].to_sc_code>> : i \in DOMAIN rows}
           R == {i \in DOMAIN es : es[i].type = "Route"}
           S == {i \in DOMAIN es : es[i].type = "Sortation Center"}
       IN /\ R \cup S = DOMAIN es
          /\ \A i \in R, j \in S : i < j
          /\ \A v \in routes :
               /\ Cardinality({i \in R : es[i].identifier = v}) = 1
               /\ \A i \in R : es[i].identifier = v =>
                     es[i].metrics.count_parcels =
                        Cardinality({j \in DOMAIN rows : rows[j].route = v})
          /\ \A i \in R : es[i].identifier \in routes
          /\ \A k \in pairs :
               /\ Cardinality({i \in S : es[i].identifier = k[1] \o " -> " \o k[2]}) = 1
               /\ \A i \in S : es[i].identifier = k[1] \o " -> " \o k[2] =>
                     es[i].metrics.count_parcels =
                        Cardinality({j \in DOMAIN rows : /\ rows[j].from_sc_code = k[1]
                                                         /\ rows[j].to_sc_code = k[2]})
          /\ \A i \in S : \E k \in pairs : es[i].identifier = k[1] \o " -> " \o k[2]

\* grouped is the per-day reduction of rows: one row per month-day that has
\* a row with a compensation amount, holding the means over all rows of
\* that month-day.
IsPerDayReduction(grouped, rows) ==
    LET md(i) == MD(rows[i].shipped_date.m, rows[i].shipped_date.d)
        kept == {md(i) : i \in Compensated(rows)}
    IN /\ {grouped[g].shipped_date_mmdd : g \in DOMAIN grouped} = kept
       /\ Len(grouped) = Cardinality(kept)
       /\ \A g \in DOMAIN grouped :
            LET G == {i \in DOMAIN rows : md(i) = grouped[g].shipped_date_mmdd}
                C == G \cap Compensated(rows)
                t == grouped[g].avg_delivery_time
                a == grouped[g].avg_compensation_amount
                sumT[X \in SUBSET G] ==
                    IF X = {} THEN 0
                    ELSE LET x == CHOOSE x \in X : TRUE
                         IN rows[x].delivery_time_business_days + sumT[X \ {x}]
                sumA[X \in SUBSET C] ==
                    IF X = {} THEN 0
                    ELSE LET x == CHOOSE x \in X : TRUE
                         IN rows[x].total_compensation.v + sumA[X \ {x}]
            IN /\ t.d > 0 /\ t.n * Cardinality(G) = sumT[G] * t.d
               /\ a.d > 0 /\ a.n * Cardinality(C) = sumA[C] * a.d

\* C8 as stated: in both scripts the correlation helper reduces the whole
\* table to one row per month-day.
C8_PerDayOverWholeTable ==
    (/\ script \in {"delivery_time", "sc_review"}
     /\ Did("analyze_correlation")
     /\ (ran[Len(ran)] = "analyze_correlation" => raised = NoExc))
    => IsPerDayReduction(out.grouped, df.rows)

\* C8 amended: delivery_time.analyze_correlation reduces the whole table to
\* one row per month-day; sc_review.analyze_correlation reduces only the
\* rows whose from_sc_code is LYO1 and whose to_sc_code is PAR1.
C8_PerDayOverSelectedRows ==
    (/\ script \in {"delivery_time", "sc_review"}
     /\ Did("analyze_correlation")
     /\ (ran[Len(ran)] = "analyze_correlation" => raised = NoExc))
    => IF script = "delivery_time"
       THEN IsPerDayReduction(out.grouped, df.rows)
       ELSE IsPerDayReduction(out.grouped,
               SelectSeq(df.rows, LAMBDA r : /\ r.from_sc_code = "LYO1"
                                              /\ r.to_sc_code = "PAR1"))

\* A delivery_time run whose table has two rows of one month-day in
\* different years, merged into one row, and a month-day dropped for having
\* no compensation amount.
C8_Witness ==
    /\ script = "delivery_time"
    /\ pc = "done"
    /\ Len(out.grouped) = 1
    /\ \E i, j \in DOMAIN df.rows :
          /\ df.rows[i].shipped_date.y # df.rows[j].shipped_date.y
          /\ df.rows[i].shipped_date.m = df.rows[j].shipped_date.m
          /\ df.rows[i].shipped_date.d = df.rows[j].shipped_date.d
          /\ out.grouped[1].shipped_date_mmdd = strftime_mmdd(df.rows[i].shipped_date)
    /\ \E i \in DOMAIN df.rows :
          out.grouped[1].shipped_date_mmdd # strftime_mmdd(df.rows[i].shipped_date)

\* C9: in sc_review, when one of the required columns is missing from the
\* input, placeholder values are made for it and the run goes on to
\* analyze_correlation and analyze_compensation_reasons without failing.
C9_FallbackProceeds ==
    (/\ script = "sc_review"
     /\ input.load_ok
     /\ \E c \in Range(required_columns) : input.cols = CsvColumns \ {c}
     /\ pc \in {"done", "crashed"})
    => /\ pc = "done"
       /\ raised = NoExc
       /\ Did("analyze_correlation")
       /\ Did("analyze_compensation_reasons")

\* C10: in the scripts without the fallback a missing shipped_date column is
\* a fatal error that ends the run, and a compensated_at_date cell that is
\* not a date becomes an absent date and the run continues.
C10_MissingColumnFatal ==
    (/\ script \in {"compensation_analysis", "delivery_time",
                    "new_cost_per_parcel_analysis"}
     /\ input.load_ok
     /\ pc \in {"done", "crashed"})
    => /\ "shipped_date" \notin input.cols => (pc = "crashed" /\ raised = "KeyError")
       /\ AllColumns =>
            /\ pc = "done"
            /\ \A i \in DOMAIN df.rows :
                 /\ df.rows[i].compensated_at_date # BadDate
                 /\ input.rows[i].compensated_at_date = BadDate
                       => df.rows[i].compensated_at_date = NaT

\* C11: row conservation in analyze_and_consolidate: every row of the table
\* is counted in exactly one Route entry and in exactly one Sortation Center
\* entry, so count_parcels summed over the Route entries is the table's row
\* count, and so is count_parcels summed over the Sortation Center entries,
\* also when route, from_sc_code or to_sc_code is absent on some rows.
C11_RowConservation ==
    (/\ script = "delivery_time"
     /\ AllColumns
     /\ Did("analyze_and_consolidate"))
    => LET rows == input.rows
           es == out.consolidated
           counted(type) ==
               SumSeq([i \in DOMAIN es |->
                         IF es[i].type = type
                         THEN es[i].metrics.count_parcels ELSE 0])
           holds(i, e) ==
               \/ /\ e.type = "Route"
                  /\ e.identifier # NaNStr
                  /\ rows[i].route = e.identifier
               \/ /\ e.type = "Sortation Center"
                  /\ rows[i].from_sc_code # NaNStr
                  /\ rows[i].to_sc_code # NaNStr
                  /\ e.identifier =
                        rows[i].from_sc_code \o " -> " \o rows[i].to_sc_code
       IN /\ counted("Route") = Len(rows)
          /\ counted("Sortation Center") = Len(rows)
          /\ \A i \in DOMAIN rows : \A type \in {"Route", "Sortation Center"} :
               Cardinality({j \in DOMAIN es :
                              es[j].type = type /\ holds(i, es[j])}) = 1

====
